---- MODULE Spec2Model ----
(***************************************************************************)
(* Model of the resilient news fetch client of mcp-news-tool (fetchNews,   *)
(* isSuccessResponse, processNewsData) together with the runtime it runs   *)
(* on: the timer queue of the event loop, the abort controllers and the    *)
(* HTTP transport (node-fetch), whose behaviour is the environment.        *)
(*                                                                         *)
(* Time is counted in milliseconds and advances in steps of BACKOFF_UNIT;  *)
(* a timer fires at the instant it is due, never later.                    *)
(* String constants of the source are rendered in ASCII.                   *)
(***************************************************************************)
EXTENDS Integers, Sequences, FiniteSets, TLC

VARIABLES
    pc,          \* per call: where the async function fetchNews is suspended
    req,         \* per call: the arguments category and date
    retries,     \* per call: the argument retries
    attempt,     \* per call: the loop variable
    lastError,   \* per call: let lastError
    requestPath, \* per call: let requestPath
    status,      \* per call: response.status of the current attempt (0: no response)
    data,        \* per call: the decoded body of the current attempt
    outcome,     \* per call: the value the returned promise resolved with
    rejection,   \* per call: the error the returned promise rejected with
    timers,      \* pending setTimeout timers of the event loop
    aborted,     \* abort controllers whose abort() has run, as <<call, attempt>>
    now,         \* the clock, in ms
    issued,      \* history, per call: the transport calls made, in order
    errs,        \* history, per call: how many attempts threw, and what the last threw
    waits,       \* history, per call: the backoff waits completed, with their length
    cut,         \* history: in-flight requests cut by an abort, as <<call, attempt>>
    invokedAt,   \* history, per call: the time of the invocation
    busy,        \* history, per call: for how long the attempt in flight has been
                 \*   in flight (0 when none is)
    handler,     \* the presentation handler that is running ("none": none)
    hpc,         \* where the handler is suspended
    hidx,        \* the handler's position in the catalog, from 1
    harg,        \* the handler's argument
    results,     \* get_latest_news: the entries of Promise.all, by catalog position
    allNews,     \* newsTemplate.list: const allNews
    targetNews,  \* article read: let targetNews (0: null)
    reply        \* what the handler returned or threw

vars == <<pc, req, retries, attempt, lastError, requestPath, status, data,
          outcome, rejection, timers, aborted, now, issued, errs, waits, cut, invokedAt, busy,
          handler, hpc, hidx, harg, results, allNews, targetNews, reply>>

\* the variables of the presentation handlers
hvars == <<handler, hpc, hidx, harg, results, allNews, targetNews, reply>>

----------------------------------------------------------------------------
(* Bounds of the model *)

MaxRetries == 3        \* largest value of the argument retries
MaxTime == 20000       \* the clock stops advancing here
MaxCategory == 1       \* categories range over -1..MaxCategory

(* Program constants *)

TIMEOUT_MS == 5000
BACKOFF_UNIT == 1000
DEFAULT_RETRIES == 3
SHAPE_ERROR_CODE == 500
EXHAUSTED_CODE == 500

API_BASE_URL == "http://116.62.41.253:6060/api/news"

Calls == {1, 2, 3}     \* identities of fetchNews invocations
Single == {1}          \* the invocation that runs alone
Pair == {1, 2}         \* two invocations in flight together

\* const categoryMap, as Object.keys / Object.entries enumerate it
Catalog == <<1, 2, 4>>
CategoryName(n) == CASE n = 1 -> "automotive"
                     [] n = 2 -> "AI technology"
                     [] n = 4 -> "hot news"
                     [] OTHER -> "undefined"

----------------------------------------------------------------------------
(* Strings are sequences of one-character strings; API_BASE_URL counts as  *)
(* one unit, since nothing in the program looks inside it.                 *)

Digit(d) == CASE d = 0 -> "0" [] d = 1 -> "1" [] d = 2 -> "2" [] d = 3 -> "3"
              [] d = 4 -> "4" [] d = 5 -> "5" [] d = 6 -> "6" [] d = 7 -> "7"
              [] d = 8 -> "8" [] d = 9 -> "9"

RECURSIVE NatToString(_)
NatToString(n) == IF n < 10 THEN <<Digit(n)>>
                  ELSE NatToString(n \div 10) \o <<Digit(n % 10)>>

\* `${category}` for an integer
NumberToString(n) == IF n < 0 THEN <<"-">> \o NatToString(-n) ELSE NatToString(n)

Str_category == <<"c","a","t","e","g","o","r","y">>
Str_date == <<"d","a","t","e">>

\* s.startsWith(p) at offset i (1-based)
OccursAt(s, p, i) == /\ i + Len(p) - 1 <= Len(s)
                     /\ \A j \in 1..Len(p) : s[i + j - 1] = p[j]

\* String.prototype.replace(p, r) with a string pattern: the first occurrence only
Replace(s, p, r) ==
    LET hits == {i \in 1..Len(s) : OccursAt(s, p, i)}
    IN  IF hits = {} THEN s
        ELSE LET i == CHOOSE k \in hits : \A m \in hits : k <= m
             IN  SubSeq(s, 1, i - 1) \o r \o SubSeq(s, i + Len(p), Len(s))

----------------------------------------------------------------------------
(* Arguments *)

Date1 == <<"2","0","2","5","-","0","1","-","0","2">>
EmptyString == << >>

\* category?: number and date?: string; has* is FALSE when the argument is omitted
NoRequest == [hasCategory |-> FALSE, category |-> 0, hasDate |-> FALSE, date |-> EmptyString]

Requests == {[NoRequest EXCEPT !.hasCategory = TRUE, !.category = n] : n \in -1..MaxCategory}
            \cup {[NoRequest EXCEPT !.hasCategory = TRUE, !.category = n,
                                    !.hasDate = TRUE, !.date = Date1] : n \in -1..MaxCategory}
            \cup {NoRequest, [NoRequest EXCEPT !.hasDate = TRUE, !.date = Date1]}

RetriesValues == -1..MaxRetries

\* The calls explored: every request with at most one attempt, and two
\* requests with every number of attempts.
RetriedRequests == {NoRequest,
                    [NoRequest EXCEPT !.hasCategory = TRUE, !.category = 1,
                                      !.hasDate = TRUE, !.date = Date1]}
Invocations == (Requests \X {n \in RetriesValues : n <= 1})
               \cup (RetriedRequests \X RetriesValues)

\* JavaScript truthiness of the two arguments
TruthyCategory(r) == r.hasCategory /\ r.category # 0
TruthyDate(r) == r.hasDate /\ r.date # EmptyString

\* the url built at the top of every attempt
BuildUrl(r) ==
    LET u1 == IF TruthyCategory(r)
              THEN <<API_BASE_URL, "?">> \o Str_category \o <<"=">> \o NumberToString(r.category)
              ELSE <<API_BASE_URL>>
    IN  IF TruthyDate(r)
        THEN u1 \o <<IF TruthyCategory(r) THEN "&" ELSE "?">> \o Str_date \o <<"=">> \o r.date
        ELSE u1

\* the whole url reported instead of what follows the base url
RequestPathWhole(u) == u

\* requestPath = url.replace(API_BASE_URL, '')
RequestPathOf(u) == Replace(u, <<API_BASE_URL>>, << >>)

\* the headers option of fetch(): the same literal at every attempt
RequestHeaders == [Accept |-> "application/json", UserAgent |-> "Daily-News-Client/1.0",
                   Connection |-> "keep-alive", CacheControl |-> "no-cache"]

\* the transport call of attempt k
Request(k, u) == [att |-> k, url |-> u, headers |-> RequestHeaders]

----------------------------------------------------------------------------
(* JavaScript values: decoded JSON bodies and the objects fetchNews        *)
(* returns.  One record shape serves for all of them: has<Key> says        *)
(* whether the key is in the object.                                       *)

\* type Pagination
Page(current, per, count, total) ==
    [current_page |-> current, per_page |-> per, total_count |-> count, total_pages |-> total]

Blank == [kind |-> "undefined",
          hasData |-> FALSE, dataIsList |-> FALSE, items |-> << >>,
          hasPagination |-> FALSE, pagination |-> Page(0, 0, 0, 0),
          hasMessage |-> FALSE, message |-> "",
          hasError |-> FALSE, error |-> "",
          hasCode |-> FALSE, code |-> 0,
          hasPath |-> FALSE, path |-> << >>,
          hasTimestamp |-> FALSE, timestamp |-> 0]

JsNull == [Blank EXCEPT !.kind = "null"]
JsNumber == [Blank EXCEPT !.kind = "number"]
JsArray == [Blank EXCEPT !.kind = "array"]
JsObject == [Blank EXCEPT !.kind = "object"]

WithData(o, list) == [o EXCEPT !.hasData = TRUE, !.dataIsList = TRUE, !.items = list]
WithScalarData(o) == [o EXCEPT !.hasData = TRUE, !.dataIsList = FALSE]
WithMessage(o, m) == [o EXCEPT !.hasMessage = TRUE, !.message = m]
WithError(o, e) == [o EXCEPT !.hasError = TRUE, !.error = e]
WithPagination(o, p) == [o EXCEPT !.hasPagination = TRUE, !.pagination = p]

ItemLists == {<< >>, <<11, 12>>}

\* page 1 of 1 with two items, and a page 3 that the totals do not have
Paginations == {Page(1, 20, 2, 1), Page(3, 20, 2, 1)}

\* the bodies the upstream can send that decode as JSON
Bodies == {JsNull, JsNumber, JsArray, JsObject,
           WithScalarData(JsObject),
           WithMessage(JsObject, "upstream says no"),
           WithError(JsObject, "upstream failed")}
          \cup {WithData(JsObject, l) : l \in ItemLists}
          \cup {WithPagination(WithData(JsObject, <<11, 12>>), p) : p \in Paginations}

Statuses == {200, 404, 500}

\* `API请求失败: ${response.status} ${response.statusText}`
StatusMessage(st) == CASE st = 200 -> "API request failed: 200 OK"
                       [] st = 404 -> "API request failed: 404 Not Found"
                       [] st = 500 -> "API request failed: 500 Internal Server Error"

InvalidShapeMessage == "API response format error: invalid data structure"
UnknownErrorMessage == "unknown error"

(* Errors *)

NoError == [name |-> "null", message |-> ""]   \* lastError = null
ConnRefused == [name |-> "FetchError", message |-> "connect ECONNREFUSED"]
HostNotFound == [name |-> "FetchError", message |-> "getaddrinfo ENOTFOUND"]
InvalidJson == [name |-> "FetchError", message |-> "invalid json response body"]
AbortError == [name |-> "AbortError", message |-> "The user aborted a request."]
NullDeref == [name |-> "TypeError", message |-> "Cannot read properties of null"]

FetchErrors == {ConnRefused, HostNotFound}   \* what fetch() can reject with
BodyErrors == {InvalidJson}                  \* what response.json() can reject with

----------------------------------------------------------------------------
(* The pure parts of fetchNews *)

ResponseOk(st) == st >= 200 /\ st <= 299         \* response.ok

Truthy(v) == v.kind \notin {"undefined", "null"}
TypeOf(v) == IF v.kind \in {"null", "array", "object"} THEN "object" ELSE v.kind

\* { code, error, timestamp: new Date().toISOString(), path }
FailureValue(code, error, path, t) ==
    [JsObject EXCEPT !.hasCode = TRUE, !.code = code,
                     !.hasError = TRUE, !.error = error,
                     !.hasTimestamp = TRUE, !.timestamp = t,
                     !.hasPath = TRUE, !.path = path]

\* data.message || `API请求失败: ...`
ErrorTextOf(d, st) == IF d.hasMessage /\ d.message # "" THEN d.message
                      ELSE StatusMessage(st)

\* the last test without its negation: a list-typed data field is refused
InvalidShapeListRefused(d) == \/ ~Truthy(d)
                              \/ TypeOf(d) # "object"
                              \/ ~d.hasData
                              \/ d.dataIsList

\* !data || typeof data !== 'object' || !('data' in data) || !Array.isArray(data.data)
InvalidShape(d) == \/ ~Truthy(d)
                   \/ TypeOf(d) # "object"
                   \/ ~d.hasData
                   \/ ~d.dataIsList

\* the status is not looked at: whatever decodes to the success shape is returned
AfterDecodeStatusIgnored(st, d, path, t) ==
    IF InvalidShape(d)
    THEN [throws |-> FALSE, error |-> NoError,
          value |-> FailureValue(SHAPE_ERROR_CODE, InvalidShapeMessage, path, t)]
    ELSE [throws |-> FALSE, error |-> NoError, value |-> d]

\* as in the earlier revision: a shape error is thrown into the catch clause
AfterDecodeShapeThrown(st, d, path, t) ==
    IF ~ResponseOk(st)
    THEN IF d.kind = "null"
         THEN [throws |-> TRUE, error |-> NullDeref, value |-> Blank]
         ELSE [throws |-> FALSE, error |-> NoError,
               value |-> FailureValue(st, ErrorTextOf(d, st), path, t)]
    ELSE IF InvalidShape(d)
         THEN [throws |-> TRUE, error |-> [name |-> "Error", message |-> InvalidShapeMessage],
               value |-> Blank]
         ELSE [throws |-> FALSE, error |-> NoError, value |-> d]

\* What the try block does once response.json() has produced d: it returns
\* a value, or (throws) an error goes to the catch clause.
AfterDecode(st, d, path, t) ==
    IF ~ResponseOk(st)
    THEN IF d.kind = "null"
         THEN [throws |-> TRUE, error |-> NullDeref, value |-> Blank]
         ELSE [throws |-> FALSE, error |-> NoError,
               value |-> FailureValue(st, ErrorTextOf(d, st), path, t)]
    ELSE IF InvalidShape(d)
         THEN [throws |-> FALSE, error |-> NoError,
               value |-> FailureValue(SHAPE_ERROR_CODE, InvalidShapeMessage, path, t)]
         ELSE [throws |-> FALSE, error |-> NoError, value |-> d]

\* the statements that can throw: await fetch(), await response.json() and
\* data.message; all three are between try { and } catch
ThrowSites == {"fetch", "json", "message"}
\* a try block around the fetch() call only
InsideTryFetchOnly(site) == site = "fetch"

InsideTry(site) == site \in ThrowSites

\* lastError = error instanceof Error ? error : new Error(String(error))
Caught(e) == e

\* the fallback text left out
ExhaustedMessageNoFallback(e) == e.message

\* lastError?.message || '未知错误'
ExhaustedMessage(e) == IF e.name # "null" /\ e.message # "" THEN e.message
                       ELSE UnknownErrorMessage

\* the return statement after the loop
ExhaustedValue(e, path, t) == FailureValue(EXHAUSTED_CODE, ExhaustedMessage(e), path, t)

\* a constant delay instead of an increasing one
BackoffDelayFlat(k) == BACKOFF_UNIT

\* const delay = attempt * 1000
BackoffDelay(k) == k * BACKOFF_UNIT

\* attempt <= retries: a wait after the last attempt too
ShouldWaitInclusive(k, n) == k <= n

\* attempt < retries: wait and go round again
ShouldWait(k, n) == k < n

\* 'data' in response && Array.isArray(response.data)
isSuccessResponse(response) == response.hasData /\ response.dataIsList

\* only the first article kept
processNewsDataFirst(response) ==
    IF isSuccessResponse(response)
    THEN SubSeq(response.items, 1, IF Len(response.items) < 1 THEN 0 ELSE 1)
    ELSE << >>

\* return isSuccessResponse(response) ? response.data : []
processNewsData(response) == IF isSuccessResponse(response) THEN response.items ELSE << >>

----------------------------------------------------------------------------
(* Timers *)

Timer(c, k, kind, armed, due) ==
    [call |-> c, att |-> k, kind |-> kind, armed |-> armed, due |-> due]

\* setTimeout(() => controller.abort(), 5000)
TimeoutTimer(c, k, t) == Timer(c, k, "timeout", t, t + TIMEOUT_MS)

\* setTimeout(resolve, delay)
BackoffTimer(c, k, t) == Timer(c, k, "backoff", t, t + BackoffDelay(k))

\* one timeout handle shared by the calls: the timers of attempt k of every call
ClearTimeoutAnyCall(ts, c, k) == {t \in ts : ~(t.att = k /\ t.kind = "timeout")}

\* clearTimeout(timeout), reached only when fetch() has resolved
ClearTimeout(ts, c, k) == {t \in ts : ~(t.call = c /\ t.att = k /\ t.kind = "timeout")}

\* one controller for all the attempts of a call, created outside the loop
InFlightAnyAttempt(c, k) == pc[c] \in {"fetching", "body"}

\* the request that the controller of attempt k of call c can abort is in flight
InFlight(c, k) == pc[c] \in {"fetching", "body"} /\ attempt[c] = k

\* what a callback of get_latest_news returns, and the slot of Promise.all
\* that is still pending
Entry(id, failed, e, news) ==
    [set |-> TRUE, categoryId |-> id, categoryName |-> CategoryName(id),
     hasError |-> failed, error |-> e, news |-> news]
NoEntry == [set |-> FALSE, categoryId |-> 0, categoryName |-> "",
            hasError |-> FALSE, error |-> "", news |-> << >>]

\* what a handler hands back to the MCP server: the items it renders, the
\* heading and the detail of its text, the entries of a per-category digest
Reply(kind, items, head, detail, entries) ==
    [kind |-> kind, items |-> items, head |-> head, detail |-> detail,
     entries |-> entries]
NoReply == Reply("none", << >>, "", "", << >>)

\* the arguments of a handler: category and date, or the id of an article
Argument(r, id) == [request |-> r, id |-> id]
NoArgument == Argument(NoRequest, 0)

----------------------------------------------------------------------------
(* The state machine *)

Init ==
    /\ pc = [c \in Calls |-> "idle"]
    /\ req = [c \in Calls |-> NoRequest]
    /\ retries = [c \in Calls |-> DEFAULT_RETRIES]
    /\ attempt = [c \in Calls |-> 0]
    /\ lastError = [c \in Calls |-> NoError]
    /\ requestPath = [c \in Calls |-> EmptyString]
    /\ status = [c \in Calls |-> 0]
    /\ data = [c \in Calls |-> Blank]
    /\ outcome = [c \in Calls |-> Blank]
    /\ rejection = [c \in Calls |-> NoError]
    /\ timers = {}
    /\ aborted = {}
    /\ now = 0
    /\ issued = [c \in Calls |-> << >>]
    /\ errs = [c \in Calls |-> [n |-> 0, last |-> NoError]]
    /\ waits = [c \in Calls |-> << >>]
    /\ cut = {}
    /\ invokedAt = [c \in Calls |-> 0]
    /\ busy = [c \in Calls |-> 0]
    /\ handler = "none"
    /\ hpc = "idle"
    /\ hidx = 0
    /\ harg = NoArgument
    /\ results = [i \in 1..Len(Catalog) |-> NoEntry]
    /\ allNews = << >>
    /\ targetNews = 0
    /\ reply = NoReply

\* The top of the loop body for attempt k, up to the await of fetch(): the
\* url is built, the timeout timer armed and the request sent.  ts is the
\* timer queue before.
StartAttempt(c, k, r, ts) ==
    LET url == BuildUrl(r)
    IN  /\ requestPath' = [requestPath EXCEPT ![c] = RequestPathOf(url)]
        /\ timers' = ts \cup {TimeoutTimer(c, k, now)}
        /\ issued' = [issued EXCEPT ![c] = Append(@, Request(k, url))]
        /\ status' = [status EXCEPT ![c] = 0]
        /\ data' = [data EXCEPT ![c] = Blank]
        /\ busy' = [busy EXCEPT ![c] = 0]
        /\ pc' = [pc EXCEPT ![c] = "fetching"]

\* The loop is left: the return statement after it.
Exhausted(c, e, k) ==
    /\ attempt' = [attempt EXCEPT ![c] = k]
    /\ outcome' = [outcome EXCEPT ![c] = ExhaustedValue(e, requestPath[c], now)]
    /\ pc' = [pc EXCEPT ![c] = "done"]

\* The catch clause, entered with the error e, and what follows it up to the
\* next await or return; ts is the timer queue before.
Catch(c, e, ts) ==
    /\ lastError' = [lastError EXCEPT ![c] = Caught(e)]
    /\ errs' = [errs EXCEPT ![c] = [n |-> @.n + 1, last |-> e]]
    /\ busy' = [busy EXCEPT ![c] = 0]
    /\ IF ShouldWait(attempt[c], retries[c])
       THEN /\ timers' = ts \cup {BackoffTimer(c, attempt[c], now)}
            /\ pc' = [pc EXCEPT ![c] = "backoff"]
            /\ UNCHANGED <<attempt, outcome>>
       ELSE \* attempt++ makes attempt > retries: the loop ends
            /\ timers' = ts
            /\ Exhausted(c, e, attempt[c] + 1)

\* The error e is thrown at a site of the loop body: the catch clause takes
\* it when the site is inside the try block, else it leaves fetchNews and the
\* returned promise rejects.
Raise(c, site, e, ts) ==
    IF InsideTry(site)
    THEN Catch(c, e, ts) /\ UNCHANGED rejection
    ELSE /\ pc' = [pc EXCEPT ![c] = "thrown"]
         /\ rejection' = [rejection EXCEPT ![c] = e]
         /\ busy' = [busy EXCEPT ![c] = 0]
         /\ timers' = ts
         /\ UNCHANGED <<attempt, lastError, errs, outcome>>

\* fetchNews(category, date, retries) is called: it runs up to its first await
Invoke(c, r, n) ==
    /\ pc[c] = "idle"
    /\ req' = [req EXCEPT ![c] = r]
    /\ retries' = [retries EXCEPT ![c] = n]
    /\ lastError' = [lastError EXCEPT ![c] = NoError]
    /\ IF 1 <= n
       THEN /\ attempt' = [attempt EXCEPT ![c] = 1]
            /\ StartAttempt(c, 1, r, timers)
            /\ UNCHANGED outcome
       ELSE /\ attempt' = [attempt EXCEPT ![c] = 1]
            /\ outcome' = [outcome EXCEPT ![c] = ExhaustedValue(NoError, EmptyString, now)]
            /\ pc' = [pc EXCEPT ![c] = "done"]
            /\ UNCHANGED <<requestPath, timers, issued, status, data, busy>>
    /\ invokedAt' = [invokedAt EXCEPT ![c] = now]
    /\ UNCHANGED <<rejection, aborted, now, errs, waits, cut>>

\* fetch() rejects: connection refused, DNS failure, ...
FetchReject(c, e) ==
    /\ pc[c] = "fetching"
    /\ Raise(c, "fetch", e, timers)
    /\ UNCHANGED <<req, retries, requestPath, status, data, aborted, now, issued, waits,
                   cut, invokedAt>>

\* fetch() resolves: the status line and the headers have arrived
FetchResolve(c, st) ==
    /\ pc[c] = "fetching"
    /\ status' = [status EXCEPT ![c] = st]
    /\ timers' = ClearTimeout(timers, c, attempt[c])
    /\ pc' = [pc EXCEPT ![c] = "body"]
    /\ UNCHANGED <<req, retries, attempt, lastError, requestPath, data, outcome,
                   rejection, aborted, now, issued, errs, waits, cut, invokedAt, busy>>

\* response.json() resolves with the decoded body d
BodyDecoded(c, d) ==
    /\ pc[c] = "body"
    /\ data' = [data EXCEPT ![c] = d]
    /\ LET res == AfterDecode(status[c], d, requestPath[c], now)
       IN  IF res.throws
           THEN Raise(c, "message", res.error, timers)
           ELSE /\ outcome' = [outcome EXCEPT ![c] = res.value]
                /\ pc' = [pc EXCEPT ![c] = "done"]
                /\ busy' = [busy EXCEPT ![c] = 0]
                /\ UNCHANGED <<attempt, lastError, errs, timers, rejection>>
    /\ UNCHANGED <<req, retries, requestPath, status, aborted, now, issued, waits, cut,
                   invokedAt>>

\* response.json() rejects: the body is not JSON, or the stream broke
BodyReject(c, e) ==
    /\ pc[c] = "body"
    /\ Raise(c, "json", e, timers)
    /\ UNCHANGED <<req, retries, requestPath, status, data, aborted, now, issued, waits,
                   cut, invokedAt>>

\* A timeout timer fires: controller.abort().  A request in flight on that
\* controller is cut and its promise rejects with an AbortError.
TimeoutFire(t) ==
    /\ t \in timers /\ t.kind = "timeout" /\ t.due <= now
    /\ aborted' = aborted \cup {<<t.call, t.att>>}
    /\ IF InFlight(t.call, t.att)
       THEN /\ cut' = cut \cup {<<t.call, t.att>>}
            /\ Raise(t.call, IF pc[t.call] = "fetching" THEN "fetch" ELSE "json",
                     AbortError, timers \ {t})
       ELSE /\ timers' = timers \ {t}
            /\ UNCHANGED <<cut, attempt, lastError, errs, outcome, rejection, pc, busy>>
    /\ UNCHANGED <<req, retries, requestPath, status, data, now, issued, waits, invokedAt>>

\* A backoff timer fires: the await in the catch clause ends, attempt++ and
\* the loop condition is tested.
BackoffFire(t) ==
    /\ t \in timers /\ t.kind = "backoff" /\ t.due <= now
    /\ pc[t.call] = "backoff"
    /\ waits' = [waits EXCEPT ![t.call] = Append(@, [att |-> t.att, ms |-> now - t.armed])]
    /\ attempt' = [attempt EXCEPT ![t.call] = @ + 1]
    /\ IF attempt[t.call] + 1 <= retries[t.call]
       THEN /\ StartAttempt(t.call, attempt[t.call] + 1, req[t.call], timers \ {t})
            /\ UNCHANGED outcome
       ELSE /\ timers' = timers \ {t}
            /\ outcome' = [outcome EXCEPT ![t.call] =
                              ExhaustedValue(lastError[t.call], requestPath[t.call], now)]
            /\ pc' = [pc EXCEPT ![t.call] = "done"]
            /\ UNCHANGED <<requestPath, issued, status, data, busy>>
    /\ UNCHANGED <<req, retries, lastError, rejection, aborted, errs, cut, invokedAt, now>>

\* Time passes.  No timer is overdue, and something is still to happen.
Tick ==
    /\ now + BACKOFF_UNIT <= MaxTime
    /\ \A t \in timers : t.due > now
    /\ timers # {} \/ \E c \in Calls : pc[c] \notin {"idle", "done", "thrown"}
    /\ now' = now + BACKOFF_UNIT
    /\ busy' = [c \in Calls |-> IF pc[c] \in {"fetching", "body"}
                                THEN busy[c] + BACKOFF_UNIT ELSE busy[c]]
    /\ UNCHANGED <<pc, req, retries, attempt, lastError, requestPath, status, data,
                   outcome, rejection, timers, aborted, issued, errs, waits, cut,
                   invokedAt>>

Step(c) ==
    \/ \E i \in Invocations : Invoke(c, i[1], i[2])
    \/ \E e \in FetchErrors : FetchReject(c, e)
    \/ \E st \in Statuses : FetchResolve(c, st)
    \/ \E d \in Bodies : BodyDecoded(c, d)
    \/ \E e \in BodyErrors : BodyReject(c, e)

\* fetchNews on its own: no handler is running
Next ==
    \/ \E c \in Single : Step(c) /\ UNCHANGED hvars
    \/ \E t \in timers : TimeoutFire(t) /\ UNCHANGED hvars
    \/ \E t \in timers : BackoffFire(t) /\ UNCHANGED hvars
    \/ Tick /\ UNCHANGED hvars

Spec == Init /\ [][Next]_vars

----------------------------------------------------------------------------
(* Vocabulary of the properties *)

\* a Failure value: code, message, time and request path, and no item list
IsFailure(v) == /\ v.kind = "object" /\ v.hasCode /\ v.hasError
                /\ v.hasTimestamp /\ v.hasPath /\ ~v.hasData

\* a decoded body that is a mapping with a list-typed data field
WellShaped(d) == d.kind = "object" /\ d.hasData /\ d.dataIsList

\* the current attempt of call c has received a response with status in/out of 2xx
GotStatus(c) == status[c] # 0
Decoded(c) == data[c].kind # "undefined"

BackoffPending(c) == \E t \in timers : t.call = c /\ t.kind = "backoff"

\* number of transport calls made so far by call c
Attempts(c) == Len(issued[c])

----------------------------------------------------------------------------
\* C1: a response whose status is not 2xx, whatever its body, ends the call at
\* once with a Failure carrying that status: the attempt that received it is
\* the last transport call, and no backoff wait follows it.
C1_NonOkStatusNotRetried ==
    \A c \in Calls :
        (GotStatus(c) /\ ~ResponseOk(status[c]) /\ pc[c] # "body")
            => /\ pc[c] = "done"
               /\ IsFailure(outcome[c])
               /\ outcome[c].code = status[c]
               /\ Attempts(c) = attempt[c]
               /\ ~BackoffPending(c)

----------------------------------------------------------------------------
\* C2: a 2xx response whose decoded body is not a mapping with a list-typed
\* data field ends the call at once with the Failure (500, invalid shape):
\* the attempt that received it is the last one (the only one when it is the
\* first), and no backoff wait follows it.
C2_ShapeErrorNotRetried ==
    \A c \in Calls :
        (GotStatus(c) /\ ResponseOk(status[c]) /\ Decoded(c) /\ ~WellShaped(data[c]))
            => /\ pc[c] = "done"
               /\ IsFailure(outcome[c])
               /\ outcome[c].code = 500
               /\ outcome[c].error = InvalidShapeMessage
               /\ Attempts(c) = attempt[c]
               /\ Len(waits[c]) = attempt[c] - 1
               /\ ~BackoffPending(c)

\* the body {"unexpected":"shape"} with status 200 on the first of three attempts
C2_Witness ==
    /\ pc[1] = "done" /\ retries[1] = 3 /\ status[1] = 200 /\ data[1] = JsObject
    /\ Attempts(1) = 1 /\ waits[1] = << >>
    /\ outcome[1].error = InvalidShapeMessage

----------------------------------------------------------------------------
\* C3: when attempt k throws and k < retries, fetch waits exactly k*1000 ms
\* and then makes attempt k+1, so the waits of a call are 1000, 2000, ... in
\* this order; with retries = 3, errors on attempts 1 and 2 and a valid
\* response on attempt 3, the call returns Success after waits of 1000 and
\* 2000 ms.
C3_LinearBackoff ==
    \A c \in Calls :
        /\ \A i \in 1..Len(waits[c]) : waits[c][i].att = i /\ waits[c][i].ms = i * 1000
        /\ \A i, j \in 1..Len(waits[c]) : i < j => waits[c][i].ms < waits[c][j].ms
        /\ \A t \in timers : (t.call = c /\ t.kind = "backoff")
              => /\ t.due - t.armed = t.att * 1000
                 /\ t.att = attempt[c] /\ t.att < retries[c] /\ pc[c] = "backoff"
        \* an attempt k < retries that threw is followed by a wait ...
        /\ (errs[c].n = attempt[c] /\ attempt[c] >= 1 /\ attempt[c] < retries[c])
              => pc[c] = "backoff" /\ BackoffPending(c)
        \* ... and the end of the wait by attempt k+1
        /\ Attempts(c) >= 1 => Attempts(c) = Len(waits[c]) + 1
        /\ pc[c] \in {"fetching", "body"}
              => Len(waits[c]) = attempt[c] - 1 /\ errs[c].n = attempt[c] - 1
        /\ (pc[c] = "done" /\ retries[c] = 3 /\ errs[c].n = 2
              /\ ResponseOk(status[c]) /\ WellShaped(data[c]))
              => /\ isSuccessResponse(outcome[c])
                 /\ waits[c] = <<[att |-> 1, ms |-> 1000], [att |-> 2, ms |-> 2000]>>

\* errors on attempts 1 and 2, Success on attempt 3
C3_Witness ==
    /\ pc[1] = "done" /\ retries[1] = 3 /\ errs[1].n = 2 /\ attempt[1] = 3
    /\ isSuccessResponse(outcome[1])
    /\ waits[1] = <<[att |-> 1, ms |-> 1000], [att |-> 2, ms |-> 2000]>>

----------------------------------------------------------------------------
\* C4: when every one of the retries >= 1 attempts throws, fetch has made
\* exactly retries transport calls and retries - 1 waits, none after the last
\* attempt, and returns the Failure with code 500 and the message of the error
\* thrown by the last attempt.
C4_Exhaustion ==
    \A c \in Calls :
        (retries[c] >= 1 /\ errs[c].n = retries[c])
            => /\ pc[c] = "done"
               /\ Attempts(c) = retries[c]
               /\ Len(waits[c]) = retries[c] - 1
               /\ ~BackoffPending(c)
               /\ IsFailure(outcome[c])
               /\ outcome[c].code = 500
               /\ outcome[c].error = errs[c].last.message

\* three attempts, the last one cut by its timeout after an earlier error of
\* another kind
C4_Witness ==
    /\ pc[1] = "done" /\ retries[1] = 3 /\ errs[1].n = 3 /\ Attempts(1) = 3
    /\ errs[1].last = AbortError /\ <<1, 1>> \notin cut
    /\ outcome[1].error = AbortError.message

----------------------------------------------------------------------------
\* C5: fetch never throws: whatever the transport does (connection error,
\* timeout abort, non-2xx status, undecodable body, body null or not an
\* object, wrong shape), no exception leaves fetchNews, and a call that has
\* ended has returned a FetchOutcome value, a Success or a Failure.
C5_NeverThrows ==
    \A c \in Calls :
        /\ pc[c] # "thrown"
        /\ pc[c] = "done" => (outcome[c].kind = "object"
                               /\ (isSuccessResponse(outcome[c]) \/ IsFailure(outcome[c])))

\* the call has returned after data.message of a null body threw in its last
\* attempt and an earlier attempt threw too
C5_Witness ==
    /\ pc[1] = "done" /\ errs[1].n = 2 /\ errs[1].last = NullDeref
    /\ data[1] = JsNull /\ IsFailure(outcome[1])

----------------------------------------------------------------------------
\* C6: a call that has returned has returned a Success if and only if its
\* final attempt received a 2xx response whose decoded body is a mapping with
\* a list-typed data field; otherwise it has returned a Failure.
C6_SuccessIff ==
    \A c \in Calls :
        pc[c] = "done"
            => /\ isSuccessResponse(outcome[c])
                    <=> (GotStatus(c) /\ ResponseOk(status[c]) /\ Decoded(c)
                         /\ WellShaped(data[c]))
               /\ ~isSuccessResponse(outcome[c]) => IsFailure(outcome[c])

\* a Success with two items, returned by the second attempt
C6_Witness ==
    /\ pc[1] = "done" /\ isSuccessResponse(outcome[1]) /\ status[1] = 200
    /\ outcome[1].items = <<11, 12>> /\ attempt[1] = 2

----------------------------------------------------------------------------
\* C7: no attempt is in flight (response not yet received and decoded) for
\* more than its timeout of 5000 ms: at that instant the request is aborted.
C7_AttemptBoundedByTimeout ==
    \A c \in Calls : pc[c] \in {"fetching", "body"} => busy[c] <= 5000

----------------------------------------------------------------------------
\* C8: a call with retries = n >= 1 that has not returned yet was invoked at
\* most n * 5000 + (1 + ... + (n-1)) * 1000 ms ago: 18000 ms for n = 3.
WorstCaseLatency(n) == n * 5000 + ((n * (n - 1)) \div 2) * 1000

C8_LatencyBounded ==
    \A c \in Calls :
        (pc[c] \notin {"idle", "done"} /\ retries[c] >= 1)
            => now - invokedAt[c] <= WorstCaseLatency(retries[c])

----------------------------------------------------------------------------
\* C9: the query string of every request sent holds category=<value> exactly
\* when a category was supplied and date=<value> exactly when a date was
\* supplied: parsing it gives back the supplied fields with their values.

\* the pieces of s between the occurrences of sep
RECURSIVE SplitOn(_, _)
SplitOn(s, sep) ==
    LET idx == {i \in 1..Len(s) : s[i] = sep}
    IN  IF idx = {} THEN <<s>>
        ELSE LET i == CHOOSE k \in idx : \A m \in idx : k <= m
             IN  <<SubSeq(s, 1, i - 1)>> \o SplitOn(SubSeq(s, i + 1, Len(s)), sep)

\* key=value, split at the first "="
KeyValue(p) ==
    LET idx == {i \in 1..Len(p) : p[i] = "="}
    IN  IF idx = {} THEN <<p, << >> >>
        ELSE LET i == CHOOSE k \in idx : \A m \in idx : k <= m
             IN  <<SubSeq(p, 1, i - 1), SubSeq(p, i + 1, Len(p))>>

\* the set of <<key, value>> of a query string "?k=v&k=v"
ParseQuery(q) ==
    IF q = << >> THEN {}
    ELSE LET parts == SplitOn(IF Head(q) = "?" THEN Tail(q) ELSE q, "&")
         IN  {KeyValue(parts[i]) : i \in 1..Len(parts)}

\* the fields the caller supplied
Supplied(r) ==
    (IF r.hasCategory THEN {<<Str_category, NumberToString(r.category)>>} ELSE {})
    \cup (IF r.hasDate THEN {<<Str_date, r.date>>} ELSE {})

C9_QueryRoundTrip ==
    \A c \in Calls : \A i \in 1..Len(issued[c]) :
        /\ Head(issued[c][i].url) = API_BASE_URL
        /\ ParseQuery(Tail(issued[c][i].url)) = Supplied(req[c])

----------------------------------------------------------------------------
\* C10: the first 2xx response with a well-shaped body makes fetch return
\* that body as Success in the same step, and nothing of the call happens
\* afterwards: no transport call, no backoff wait, no request cut by a
\* timeout, whatever number of attempts remain.
CutOf(s, c) == {x \in s : x[1] = c}

C10_Returned(c) ==
    (GotStatus(c) /\ ResponseOk(status[c]) /\ Decoded(c) /\ WellShaped(data[c]))
        => /\ pc[c] = "done"
           /\ outcome[c] = data[c] /\ isSuccessResponse(outcome[c])
           /\ Attempts(c) = attempt[c]
           /\ ~BackoffPending(c)
           /\ <<c, attempt[c]>> \notin cut

C10_Quiet(c) ==
    (pc[c] = "done" /\ isSuccessResponse(outcome[c]))
        => /\ pc'[c] = "done" /\ outcome'[c] = outcome[c]
           /\ attempt'[c] = attempt[c]
           /\ issued'[c] = issued[c]
           /\ waits'[c] = waits[c]
           /\ CutOf(cut', c) = CutOf(cut, c)
           /\ \A t \in timers' : t.call = c => (t.kind = "timeout" /\ t \in timers)

C10_SuccessShortCircuits ==
    /\ [](\A c \in Calls : C10_Returned(c))
    /\ [][\A c \in Calls : C10_Quiet(c)]_vars

\* Success on the second of three attempts; the timeout timer that the error
\* of the first attempt left pending has fired, and has cut no request
C10_Witness ==
    /\ pc[1] = "done" /\ isSuccessResponse(outcome[1])
    /\ retries[1] = 3 /\ attempt[1] = 2
    /\ <<1, 1>> \in aborted /\ cut = {}

----------------------------------------------------------------------------
\* C12: the Failure returned for a non-2xx response carries the error text
\* that the body supplies under the key error or under the key message, and
\* the status-based text only when the body supplies neither.
SuppliedTexts(d) == (IF d.hasError /\ d.error # "" THEN {d.error} ELSE {})
                    \cup (IF d.hasMessage /\ d.message # "" THEN {d.message} ELSE {})

C12_ErrorTextFromBody ==
    \A c \in Calls :
        (pc[c] = "done" /\ GotStatus(c) /\ ~ResponseOk(status[c]) /\ data[c].kind = "object")
            => /\ IsFailure(outcome[c])
               /\ IF SuppliedTexts(data[c]) # {}
                  THEN outcome[c].error \in SuppliedTexts(data[c])
                  ELSE outcome[c].error = StatusMessage(status[c])

----------------------------------------------------------------------------
\* C17: in a call with retries = n >= 1 the attempts are numbered 1, 2, ... in
\* order, at most one request is in flight at a time, at most n transport
\* calls and at most n - 1 backoff waits are made, and a backoff wait is only
\* ever started by an attempt that threw and ended by the next attempt.
WaitsStarted(c) == Len(waits[c]) + Cardinality({t \in timers : t.call = c /\ t.kind = "backoff"})

\* attempts that have ended: by a throw, or by the return of a value
AttemptsEnded(c) == errs[c].n + (IF pc[c] = "done" /\ attempt[c] = Attempts(c) THEN 1 ELSE 0)

C17_SequentialBoundedAttempts ==
    \A c \in Calls :
        retries[c] >= 1
            => /\ \A i \in 1..Attempts(c) : issued[c][i].att = i
               /\ Attempts(c) - AttemptsEnded(c) \in {0, 1}
               /\ Attempts(c) - AttemptsEnded(c) = 1 <=> pc[c] \in {"fetching", "body"}
               /\ pc[c] \in {"fetching", "body"} => attempt[c] = Attempts(c)
               /\ Attempts(c) <= retries[c]
               /\ WaitsStarted(c) <= retries[c] - 1
               /\ WaitsStarted(c) <= errs[c].n
               /\ \A i \in 1..Len(waits[c]) : waits[c][i].att = i /\ i + 1 <= Attempts(c)
               /\ pc[c] = "backoff" => (WaitsStarted(c) = attempt[c] /\ errs[c].n = attempt[c]
                                       /\ Attempts(c) = attempt[c])

\* the second wait of a call with three attempts is in progress
C17_Witness ==
    /\ pc[1] = "backoff" /\ retries[1] = 3 /\ attempt[1] = 2
    /\ Len(waits[1]) = 1 /\ Attempts(1) = 2 /\ errs[1].n = 2

----------------------------------------------------------------------------
\* C18: a call with retries <= 0 makes no transport call and no wait, and
\* returns the Failure with code 500, the "unknown error" text and an empty
\* request path.
C18_NoAttempts ==
    \A c \in Calls :
        (pc[c] # "idle" /\ retries[c] <= 0)
            => /\ pc[c] = "done"
               /\ issued[c] = << >> /\ waits[c] = << >> /\ errs[c].n = 0
               /\ \A t \in timers : t.call # c
               /\ IsFailure(outcome[c])
               /\ outcome[c].code = 500
               /\ outcome[c].error = "unknown error"
               /\ outcome[c].path = << >>

C18_Witness ==
    /\ pc[1] = "done" /\ retries[1] = -1 /\ issued[1] = << >>
    /\ outcome[1].error = "unknown error"

----------------------------------------------------------------------------
\* C20: the timeout timer of attempt k cuts no request but that of attempt k.
\* When it fires after attempt k has ended, during the backoff wait or during
\* a later attempt, it cuts nothing and leaves the position of the call, its
\* attempt counter, its last error and its outcome as they are.
Fired(t) == /\ t \in timers /\ t \notin timers' /\ t.kind = "timeout"
            /\ <<t.call, t.att>> \in aborted' /\ <<t.call, t.att>> \notin aborted

C20_Step ==
    /\ \A t \in timers :
          (Fired(t) /\ ~(attempt[t.call] = t.att /\ pc[t.call] \in {"fetching", "body"}))
              => /\ pc'[t.call] = pc[t.call]
                 /\ attempt'[t.call] = attempt[t.call]
                 /\ lastError'[t.call] = lastError[t.call]
                 /\ outcome'[t.call] = outcome[t.call]
                 /\ errs'[t.call] = errs[t.call]
                 /\ cut' = cut
    /\ \A x \in cut' \ cut : attempt[x[1]] = x[2] /\ pc[x[1]] \in {"fetching", "body"}

C20_StaleTimerHarmless == [][C20_Step]_vars

\* the timer of attempt 1 has fired while the request of attempt 2 is in
\* flight, and no request has been cut
C20_Witness ==
    /\ pc[1] = "fetching" /\ attempt[1] = 2 /\ busy[1] > 0
    /\ <<1, 1>> \in aborted /\ cut = {}
    /\ \A t \in timers : ~(t.call = 1 /\ t.att = 1)

----------------------------------------------------------------------------
\* C16: every Success outcome carries a pagination record, and in it
\* current_page <= total_pages whenever total_count > 0.
C16_PaginationConsistent ==
    \A c \in Calls :
        (pc[c] = "done" /\ isSuccessResponse(outcome[c]))
            => /\ outcome[c].hasPagination
               /\ outcome[c].pagination.total_count > 0
                     => outcome[c].pagination.current_page <= outcome[c].pagination.total_pages

----------------------------------------------------------------------------
(* The earlier revision of fetchNews (index.ts): the same loop, but a non-2xx
   status and an invalid shape are thrown inside the try block, there is no
   requestPath, and the statement after the loop is a throw. *)

\* new Error(msg)
ErrorOf(msg) == [name |-> "Error", message |-> msg]

\* the headers option of fetch() in that revision, and the transport call
RequestHeadersOld == [Accept |-> "application/json", UserAgent |-> "Daily-News-Client/1.0"]
RequestOld(k, u) == [att |-> k, url |-> u, headers |-> RequestHeadersOld]

\* the top of the loop body for attempt k, up to the await of fetch()
StartAttemptOld(c, k, r, ts) ==
    /\ timers' = ts \cup {TimeoutTimer(c, k, now)}
    /\ issued' = [issued EXCEPT ![c] = Append(@, RequestOld(k, BuildUrl(r)))]
    /\ status' = [status EXCEPT ![c] = 0]
    /\ data' = [data EXCEPT ![c] = Blank]
    /\ busy' = [busy EXCEPT ![c] = 0]
    /\ pc' = [pc EXCEPT ![c] = "fetching"]
    /\ UNCHANGED requestPath

\* a Failure value returned after the loop, as the later revision does
ReturnAfterLoopOld(c, e, k) ==
    /\ attempt' = [attempt EXCEPT ![c] = k]
    /\ outcome' = [outcome EXCEPT ![c] = ExhaustedValue(e, requestPath[c], now)]
    /\ pc' = [pc EXCEPT ![c] = "done"]
    /\ UNCHANGED rejection

\* throw lastError || new Error('未知错误')
ThrowAfterLoopOld(c, e, k) ==
    /\ attempt' = [attempt EXCEPT ![c] = k]
    /\ rejection' = [rejection EXCEPT ![c] =
                        IF e # NoError THEN e ELSE ErrorOf(UnknownErrorMessage)]
    /\ pc' = [pc EXCEPT ![c] = "thrown"]
    /\ UNCHANGED outcome

\* the catch clause, entered with the error e; ts is the timer queue before
CatchOld(c, e, ts) ==
    /\ lastError' = [lastError EXCEPT ![c] = Caught(e)]
    /\ errs' = [errs EXCEPT ![c] = [n |-> @.n + 1, last |-> e]]
    /\ busy' = [busy EXCEPT ![c] = 0]
    /\ IF ShouldWait(attempt[c], retries[c])
       THEN /\ timers' = ts \cup {BackoffTimer(c, attempt[c], now)}
            /\ pc' = [pc EXCEPT ![c] = "backoff"]
            /\ UNCHANGED <<attempt, outcome, rejection>>
       ELSE /\ timers' = ts
            /\ ThrowAfterLoopOld(c, e, attempt[c] + 1)

InvokeOld(c, r, n) ==
    /\ pc[c] = "idle"
    /\ req' = [req EXCEPT ![c] = r]
    /\ retries' = [retries EXCEPT ![c] = n]
    /\ lastError' = [lastError EXCEPT ![c] = NoError]
    /\ IF 1 <= n
       THEN /\ attempt' = [attempt EXCEPT ![c] = 1]
            /\ StartAttemptOld(c, 1, r, timers)
            /\ UNCHANGED <<outcome, rejection>>
       ELSE /\ ThrowAfterLoopOld(c, NoError, 1)
            /\ UNCHANGED <<requestPath, timers, issued, status, data, busy>>
    /\ invokedAt' = [invokedAt EXCEPT ![c] = now]
    /\ UNCHANGED <<aborted, now, errs, waits, cut>>

FetchRejectOld(c, e) ==
    /\ pc[c] = "fetching"
    /\ CatchOld(c, e, timers)
    /\ UNCHANGED <<req, retries, requestPath, status, data, aborted, now, issued, waits,
                   cut, invokedAt>>

\* fetch() resolves: clearTimeout, then if (!response.ok) throw
FetchResolveOld(c, st) ==
    /\ pc[c] = "fetching"
    /\ status' = [status EXCEPT ![c] = st]
    /\ IF ResponseOk(st)
       THEN /\ timers' = ClearTimeout(timers, c, attempt[c])
            /\ pc' = [pc EXCEPT ![c] = "body"]
            /\ UNCHANGED <<attempt, lastError, outcome, rejection, errs, busy>>
       ELSE CatchOld(c, ErrorOf(StatusMessage(st)), ClearTimeout(timers, c, attempt[c]))
    /\ UNCHANGED <<req, retries, requestPath, data, aborted, now, issued, waits, cut,
                   invokedAt>>

\* response.json() resolves with d: an invalid shape is thrown, else d is returned
BodyDecodedOld(c, d) ==
    /\ pc[c] = "body"
    /\ data' = [data EXCEPT ![c] = d]
    /\ IF InvalidShape(d)
       THEN CatchOld(c, ErrorOf(InvalidShapeMessage), timers)
       ELSE /\ outcome' = [outcome EXCEPT ![c] = d]
            /\ pc' = [pc EXCEPT ![c] = "done"]
            /\ busy' = [busy EXCEPT ![c] = 0]
            /\ UNCHANGED <<attempt, lastError, errs, timers, rejection>>
    /\ UNCHANGED <<req, retries, requestPath, status, aborted, now, issued, waits, cut,
                   invokedAt>>

BodyRejectOld(c, e) ==
    /\ pc[c] = "body"
    /\ CatchOld(c, e, timers)
    /\ UNCHANGED <<req, retries, requestPath, status, data, aborted, now, issued, waits,
                   cut, invokedAt>>

TimeoutFireOld(t) ==
    /\ t \in timers /\ t.kind = "timeout" /\ t.due <= now
    /\ aborted' = aborted \cup {<<t.call, t.att>>}
    /\ IF InFlight(t.call, t.att)
       THEN /\ cut' = cut \cup {<<t.call, t.att>>}
            /\ CatchOld(t.call, AbortError, timers \ {t})
       ELSE /\ timers' = timers \ {t}
            /\ UNCHANGED <<cut, attempt, lastError, errs, outcome, rejection, pc, busy>>
    /\ UNCHANGED <<req, retries, requestPath, status, data, now, issued, waits, invokedAt>>

\* the backoff wait ends: attempt++ and the loop condition
BackoffFireOld(t) ==
    /\ t \in timers /\ t.kind = "backoff" /\ t.due <= now
    /\ pc[t.call] = "backoff"
    /\ waits' = [waits EXCEPT ![t.call] = Append(@, [att |-> t.att, ms |-> now - t.armed])]
    /\ IF attempt[t.call] + 1 <= retries[t.call]
       THEN /\ attempt' = [attempt EXCEPT ![t.call] = @ + 1]
            /\ StartAttemptOld(t.call, attempt[t.call] + 1, req[t.call], timers \ {t})
            /\ UNCHANGED <<outcome, rejection>>
       ELSE /\ timers' = timers \ {t}
            /\ ThrowAfterLoopOld(t.call, lastError[t.call], attempt[t.call] + 1)
            /\ UNCHANGED <<requestPath, issued, status, data, busy>>
    /\ UNCHANGED <<req, retries, lastError, aborted, errs, cut, invokedAt, now>>

StepOld(c) ==
    \/ \E i \in Invocations : InvokeOld(c, i[1], i[2])
    \/ \E e \in FetchErrors : FetchRejectOld(c, e)
    \/ \E st \in Statuses : FetchResolveOld(c, st)
    \/ \E d \in Bodies : BodyDecodedOld(c, d)
    \/ \E e \in BodyErrors : BodyRejectOld(c, e)

NextOld ==
    \/ \E c \in Single : StepOld(c) /\ UNCHANGED hvars
    \/ \E t \in timers : TimeoutFireOld(t) /\ UNCHANGED hvars
    \/ \E t \in timers : BackoffFireOld(t) /\ UNCHANGED hvars
    \/ Tick /\ UNCHANGED hvars

SpecOld == Init /\ [][NextOld]_vars

\* C19: in the earlier revision a non-2xx status and an invalid shape are
\* thrown inside the loop and caught like a transport error: while attempts
\* remain the call waits attempt*1000 ms and tries again; a call ends only by
\* returning a well-shaped body or, after retries failed attempts, by throwing
\* the last error (an unknown error when no attempt was made); it never
\* returns a Failure value.
C19_OldRevisionRetriesAll ==
    \A c \in Calls :
        /\ ~IsFailure(outcome[c])
        /\ pc[c] = "done" => isSuccessResponse(outcome[c]) /\ ResponseOk(status[c])
        /\ (pc[c] \in {"backoff", "thrown"} /\ GotStatus(c) /\ ~ResponseOk(status[c]))
              => lastError[c] = ErrorOf(StatusMessage(status[c]))
        /\ (pc[c] \in {"backoff", "thrown"} /\ Decoded(c))
              => InvalidShape(data[c]) /\ lastError[c] = ErrorOf(InvalidShapeMessage)
        /\ pc[c] = "backoff"
              => /\ attempt[c] < retries[c]
                 /\ errs[c].n = attempt[c]
                 /\ \E t \in timers : /\ t.call = c /\ t.kind = "backoff"
                                      /\ t.att = attempt[c]
                                      /\ t.due - t.armed = attempt[c] * BACKOFF_UNIT
        /\ \A i \in 1..Len(waits[c]) : waits[c][i] = [att |-> i, ms |-> i * BACKOFF_UNIT]
        /\ pc[c] = "thrown"
              => IF retries[c] < 1
                 THEN Attempts(c) = 0 /\ rejection[c] = ErrorOf(UnknownErrorMessage)
                 ELSE /\ Attempts(c) = retries[c]
                      /\ errs[c].n = retries[c]
                      /\ Len(waits[c]) = retries[c] - 1
                      /\ rejection[c] = errs[c].last
                      /\ rejection[c] = lastError[c]

\* three attempts failed, the third with status 500 after two waits, and
\* the call threw that status error
C19_Witness ==
    /\ pc[1] = "thrown" /\ retries[1] = 3 /\ Len(waits[1]) = 2
    /\ rejection[1] = ErrorOf(StatusMessage(500))

----------------------------------------------------------------------------
(* Two calls of fetchNews in flight together, as the handlers that await
   several fetchNews promises make them: the calls share the event loop, its
   clock and its timer queue, and nothing else. *)

ConcRetries == 2
ConcMaxTime == 6000

\* the request for one category of the catalog
CategoryRequest(n) == [NoRequest EXCEPT !.hasCategory = TRUE, !.category = n]

\* call c asks for category c
ConcInvocations(c) == {CategoryRequest(c)} \X (1..ConcRetries)

ConcStatuses == {200, 500}
ConcBodies == {JsNull, WithData(JsObject, <<11, 12>>)}
ConcFetchErrors == {ConnRefused}

StepConc(c) ==
    \/ \E i \in ConcInvocations(c) : Invoke(c, i[1], i[2])
    \/ \E e \in ConcFetchErrors : FetchReject(c, e)
    \/ \E st \in ConcStatuses : FetchResolve(c, st)
    \/ \E d \in ConcBodies : BodyDecoded(c, d)
    \/ \E e \in BodyErrors : BodyReject(c, e)

\* time passes, up to the horizon of the two-call exploration
TickConc == now + BACKOFF_UNIT <= ConcMaxTime /\ Tick

NextConc ==
    \/ \E c \in Pair : StepConc(c) /\ UNCHANGED hvars
    \/ \E t \in timers : TimeoutFire(t) /\ UNCHANGED hvars
    \/ \E t \in timers : BackoffFire(t) /\ UNCHANGED hvars
    \/ TickConc /\ UNCHANGED hvars

SpecConc == Init /\ [][NextConc]_vars

\* everything that belongs to call c: its variables, its timers and its
\* abort controllers
Local(c) == <<pc[c], req[c], retries[c], attempt[c], lastError[c], requestPath[c],
              status[c], data[c], outcome[c], rejection[c], issued[c], errs[c], waits[c],
              {t \in timers : t.call = c},
              {a \in aborted : a[1] = c},
              {a \in cut : a[1] = c}>>

\* call c is what this step is about: an event of its transport, or one of
\* its timers firing
ActsOn(c) ==
    \/ StepConc(c)
    \/ \E t \in timers : t.call = c /\ (TimeoutFire(t) \/ BackoffFire(t))

C11_Own(c) ==
    /\ \A i \in 1..Len(issued[c]) : issued[c][i] = Request(i, BuildUrl(req[c]))
    /\ \A t \in timers : t.call = c => t.att <= attempt[c]
    /\ \A a \in cut : a[1] = c => a \in aborted /\ a[2] <= attempt[c]
    /\ (pc[c] = "done" /\ IsFailure(outcome[c]))
          => outcome[c].path = RequestPathOf(BuildUrl(req[c]))
    /\ (pc[c] = "done" /\ ~IsFailure(outcome[c])) => outcome[c] = data[c]

C11_Step ==
    /\ \A c \in Calls : ActsOn(c) => \A o \in Calls \ {c} : Local(o)' = Local(o)
    /\ now' # now => \A c \in Calls : Local(c)' = Local(c)

\* C11: with two calls in flight together, under every interleaving of their
\* responses, errors and timers, a step of one call (an event of its transport,
\* its timeout timer or its backoff timer) leaves the other call's attempt
\* counter, last error, controllers, timers and outcome as they were, the
\* passing of time changes neither, and every call's requests and outcome are
\* those of its own category.
C11_CallsIndependent == [](\A c \in Calls : C11_Own(c)) /\ [][C11_Step]_vars

\* call 1 was cut by its timeout and is waiting to retry while call 2, invoked
\* later, has returned its own list
C11_Witness ==
    /\ pc[1] = "backoff" /\ <<1, 1>> \in cut
    /\ pc[2] = "done" /\ isSuccessResponse(outcome[2]) /\ invokedAt[2] > invokedAt[1]
    /\ issued[2][1].url # issued[1][1].url

----------------------------------------------------------------------------
(* The presentation handlers.  Each runs as an async function: a step is the
   code between two awaits.  A call of fetchNews made by a handler takes the
   default retries. *)

fvars == <<pc, req, retries, attempt, lastError, requestPath, status, data,
           outcome, rejection, timers, aborted, now, issued, errs, waits, cut,
           invokedAt, busy>>

\* the awaited promise of call c has settled
Settled(c) == pc[c] \in {"done", "thrown"}

\* newsData.slice(0, 5)
Slice5(l) == SubSeq(l, 1, IF Len(l) < 5 THEN Len(l) ELSE 5)

\* newsData.find(news => news.id === Number(id)), 0 for undefined; an item
\* stands for the article of that id
Find(l, id) == IF \E i \in 1..Len(l) : l[i] = id
               THEN l[CHOOSE i \in 1..Len(l) : l[i] = id /\ \A j \in 1..(i - 1) : l[j] # id]
               ELSE 0

\* response.error
ErrorField(response) == IF response.hasError THEN response.error ELSE "undefined"

\* the articles a handler takes from the promise of call c: processNewsData
\* of the value, nothing when the promise rejected (the catch clause)
NewsOf(c) == IF pc[c] = "done" THEN processNewsData(outcome[c]) ELSE << >>

Today == Date1
DatedRequest(n) == [CategoryRequest(n) EXCEPT !.hasDate = TRUE, !.date = Today]

\* newsTemplate.list, up to its first await
ListStart ==
    /\ handler = "none"
    /\ handler' = "list" /\ hpc' = "awaiting" /\ hidx' = 1
    /\ allNews' = << >>
    /\ Invoke(1, CategoryRequest(Catalog[1]), DEFAULT_RETRIES)
    /\ UNCHANGED <<harg, results, targetNews, reply>>

\* the rest of one round of the loop of list, and the next round up to its await
ListContinue ==
    /\ handler = "list" /\ hpc = "awaiting" /\ Settled(hidx)
    /\ LET all == allNews \o Slice5(NewsOf(hidx))
       IN  /\ allNews' = all
           /\ IF hidx < Len(Catalog)
              THEN /\ hidx' = hidx + 1
                   /\ Invoke(hidx + 1, CategoryRequest(Catalog[hidx + 1]), DEFAULT_RETRIES)
                   /\ UNCHANGED <<hpc, reply>>
              ELSE /\ hpc' = "done"
                   /\ reply' = Reply("resources", all, "", "", << >>)
                   /\ UNCHANGED <<hidx, fvars>>
    /\ UNCHANGED <<handler, harg, results, targetNews>>

\* the read callback of the news resource, up to its first await
ReadStart(id) ==
    /\ handler = "none"
    /\ handler' = "read" /\ hpc' = "awaiting" /\ hidx' = 1
    /\ harg' = Argument(NoRequest, id)
    /\ targetNews' = 0
    /\ Invoke(1, CategoryRequest(Catalog[1]), DEFAULT_RETRIES)
    /\ UNCHANGED <<results, allNews, reply>>

\* the loop without its break: every category is fetched, the last hit kept
ReadContinueNoBreak ==
    /\ handler = "read" /\ hpc = "awaiting" /\ Settled(hidx)
    /\ LET found == Find(NewsOf(hidx), harg.id)
           target == IF found # 0 THEN found ELSE targetNews
       IN  /\ targetNews' = target
           /\ IF hidx < Len(Catalog)
              THEN /\ hidx' = hidx + 1
                   /\ Invoke(hidx + 1, CategoryRequest(Catalog[hidx + 1]), DEFAULT_RETRIES)
                   /\ UNCHANGED <<hpc, reply>>
              ELSE /\ hpc' = IF target # 0 THEN "done" ELSE "thrown"
                   /\ reply' = IF target # 0
                               THEN Reply("contents", <<target>>, "", "", << >>)
                               ELSE Reply("error", << >>, "news not found", "", << >>)
                   /\ UNCHANGED <<hidx, fvars>>
    /\ UNCHANGED <<handler, harg, results, allNews>>

\* the rest of one round of the loop of read: the article is returned, the
\* next category fetched, or the not-found error thrown
ReadContinue ==
    /\ handler = "read" /\ hpc = "awaiting" /\ Settled(hidx)
    /\ LET found == Find(NewsOf(hidx), harg.id)
       IN  IF found # 0
           THEN /\ targetNews' = found
                /\ hpc' = "done"
                /\ reply' = Reply("contents", <<found>>, "", "", << >>)
                /\ UNCHANGED <<hidx, fvars>>
           ELSE IF hidx < Len(Catalog)
           THEN /\ hidx' = hidx + 1
                /\ Invoke(hidx + 1, CategoryRequest(Catalog[hidx + 1]), DEFAULT_RETRIES)
                /\ UNCHANGED <<hpc, reply, targetNews>>
           ELSE /\ hpc' = "thrown"
                /\ reply' = Reply("error", << >>, "news not found", "", << >>)
                /\ UNCHANGED <<hidx, targetNews, fvars>>
    /\ UNCHANGED <<handler, harg, results, allNews>>

\* get_category_news({category, date}), up to its await
CategoryStart(n) ==
    /\ handler = "none"
    /\ handler' = "category" /\ hpc' = "awaiting" /\ hidx' = 1
    /\ harg' = Argument(DatedRequest(n), 0)
    /\ Invoke(1, DatedRequest(n), DEFAULT_RETRIES)
    /\ UNCHANGED <<results, allNews, targetNews, reply>>

CategoryContinue ==
    /\ handler = "category" /\ hpc = "awaiting" /\ Settled(1)
    /\ hpc' = "done"
    /\ reply' = IF pc[1] = "thrown"
                THEN Reply("text", << >>, "query failed", rejection[1].message, << >>)
                ELSE IF ~isSuccessResponse(outcome[1])
                THEN Reply("text", << >>, "query failed", ErrorField(outcome[1]), << >>)
                ELSE Reply("text", processNewsData(outcome[1]), "query result",
                           CategoryName(harg.request.category), << >>)
    /\ UNCHANGED <<handler, hidx, harg, results, allNews, targetNews, fvars>>

\* get_latest_news: map() calls the callback of the first category, which
\* runs up to its await
LatestStart ==
    /\ handler = "none"
    /\ handler' = "latest" /\ hpc' = "starting" /\ hidx' = 1
    /\ Invoke(1, DatedRequest(Catalog[1]), DEFAULT_RETRIES)
    /\ UNCHANGED <<harg, results, allNews, targetNews, reply>>

\* map() calls the callback of the next category; after the last, Promise.all
\* is awaited
LatestSpawn ==
    /\ handler = "latest" /\ hpc = "starting"
    /\ hidx' = hidx + 1
    /\ Invoke(hidx + 1, DatedRequest(Catalog[hidx + 1]), DEFAULT_RETRIES)
    /\ hpc' = IF hidx + 1 = Len(Catalog) THEN "awaiting" ELSE "starting"
    /\ UNCHANGED <<handler, harg, results, allNews, targetNews, reply>>

\* without the test of the outcome: every response is rendered as news
LatestEntryUnchecked(i) ==
    IF pc[i] = "thrown"
    THEN Entry(Catalog[i], TRUE, rejection[i].message, << >>)
    ELSE Entry(Catalog[i], FALSE, "", outcome[i].items)

\* what the callback of catalog position i returns
LatestEntry(i) ==
    IF pc[i] = "thrown"
    THEN Entry(Catalog[i], TRUE, rejection[i].message, << >>)
    ELSE IF ~isSuccessResponse(outcome[i])
    THEN Entry(Catalog[i], TRUE, ErrorField(outcome[i]), << >>)
    ELSE Entry(Catalog[i], FALSE, "", processNewsData(outcome[i]))

\* the callback of position i goes on after its await and returns
LatestSettle(i) ==
    /\ handler = "latest" /\ hpc = "awaiting"
    /\ ~results[i].set /\ Settled(i)
    /\ results' = [results EXCEPT ![i] = LatestEntry(i)]
    /\ UNCHANGED <<handler, hpc, hidx, harg, allNews, targetNews, reply, fvars>>

\* Promise.race in place of Promise.all: the first entry ends the wait
LatestFinishRace ==
    /\ handler = "latest" /\ hpc = "awaiting"
    /\ \E i \in 1..Len(Catalog) : results[i].set
    /\ hpc' = "done"
    /\ reply' = Reply("text", << >>, "latest news", "", [i \in 1..Len(Catalog) |-> results[i]])
    /\ UNCHANGED <<handler, hidx, harg, results, allNews, targetNews, fvars>>

\* Promise.all resolves with the entries in catalog order; the text is built
LatestFinish ==
    /\ handler = "latest" /\ hpc = "awaiting"
    /\ \A i \in 1..Len(Catalog) : results[i].set
    /\ hpc' = "done"
    /\ reply' = Reply("text", << >>, "latest news", "", [i \in 1..Len(Catalog) |-> results[i]])
    /\ UNCHANGED <<handler, hidx, harg, results, allNews, targetNews, fvars>>

\* a handler has code to run now: the continuation of a settled await, or
\* the synchronous rest of map()
Pending ==
    \/ handler \in {"list", "read"} /\ hpc = "awaiting" /\ Settled(hidx)
    \/ handler = "category" /\ hpc = "awaiting" /\ Settled(1)
    \/ handler = "latest" /\ hpc = "starting"
    \/ /\ handler = "latest" /\ hpc = "awaiting"
       /\ \/ \E i \in 1..Len(Catalog) : ~results[i].set /\ Settled(i)
          \/ \A i \in 1..Len(Catalog) : results[i].set

(* The upstream and the clock as the handlers are explored with them *)

HandlerMaxTime == 8000
HandlerStatuses == {200}
HandlerBodies == {JsNull, WithData(JsObject, << >>), WithData(JsObject, <<11, 12>>)}
HandlerFetchErrors == {ConnRefused}
ReadIds == {12, 99}
HandlerCategories == {1, 3}

\* the upstream answers an attempt within HandlerLatency of the request, or
\* not at all: then the attempt lasts until its timeout
HandlerLatency == 0
Prompt(c) == busy[c] <= HandlerLatency

StepHandlers(c) ==
    /\ Prompt(c)
    /\ \/ \E e \in HandlerFetchErrors : FetchReject(c, e)
       \/ \E st \in HandlerStatuses : FetchResolve(c, st)
       \/ \E d \in HandlerBodies : BodyDecoded(c, d)

TickHandlers == now + BACKOFF_UNIT <= HandlerMaxTime /\ Tick

\* an event of the event loop other than handler code runs only when no
\* handler code is ready to run, and leaves the handler where it is
Environment == ~Pending /\ UNCHANGED hvars

NextHandlers ==
    \/ ListStart
    \/ ListContinue
    \/ \E id \in ReadIds : ReadStart(id)
    \/ ReadContinue
    \/ \E n \in HandlerCategories : CategoryStart(n)
    \/ CategoryContinue
    \/ LatestStart
    \/ LatestSpawn
    \/ \E i \in 1..Len(Catalog) : LatestSettle(i)
    \/ LatestFinish
    \/ \E c \in Calls : Environment /\ StepHandlers(c)
    \/ \E t \in timers : Environment /\ TimeoutFire(t)
    \/ \E t \in timers : Environment /\ BackoffFire(t)
    \/ Environment /\ TickHandlers

SpecHandlers == Init /\ [][NextHandlers]_vars

----------------------------------------------------------------------------
\* the same sequence: same length, same element at every position
SameItems(a, b) == Len(a) = Len(b) /\ \A i \in 1..Len(a) : a[i] = b[i]

\* C13: for every outcome fetchNews returns, isSuccessResponse tells the two
\* variants apart; processNewsData is empty for a Failure and, for a Success,
\* is the item list of the body the upstream sent, element by element; the
\* handler that renders it renders exactly that list; a returned outcome is
\* never changed afterwards.
C13_Inv ==
    /\ \A c \in Calls :
          pc[c] = "done"
             => /\ IsFailure(outcome[c]) \/ WellShaped(outcome[c])
                /\ IsFailure(outcome[c])
                      => ~isSuccessResponse(outcome[c]) /\ processNewsData(outcome[c]) = << >>
                /\ WellShaped(outcome[c])
                      => /\ isSuccessResponse(outcome[c])
                         /\ SameItems(processNewsData(outcome[c]), data[c].items)
    /\ (handler = "category" /\ hpc = "done" /\ pc[1] = "done")
          => SameItems(reply.items, IF WellShaped(data[1]) /\ ~IsFailure(outcome[1])
                                    THEN data[1].items ELSE << >>)

C13_ItemsOf ==
    []C13_Inv /\ [][\A c \in Calls : pc[c] = "done" => outcome'[c] = outcome[c]]_vars

\* get_category_news has rendered the two articles of a Success
C13_Witness ==
    /\ handler = "category" /\ hpc = "done"
    /\ isSuccessResponse(outcome[1]) /\ reply.items = <<11, 12>>

\* the entry that belongs to the outcome of call i
EntryOf(i) ==
    IF IsFailure(outcome[i])
    THEN Entry(Catalog[i], TRUE, outcome[i].error, << >>)
    ELSE Entry(Catalog[i], FALSE, "", outcome[i].items)

C14_Inv ==
    /\ (handler = "latest" /\ hpc = "starting")
          => \A i \in 1..Len(Catalog) :
                pc[i] = (IF i <= hidx THEN "fetching" ELSE "idle")
    /\ (handler = "latest" /\ hpc \in {"awaiting", "done"})
          => \A i \in 1..Len(Catalog) :
                /\ req[i] = DatedRequest(Catalog[i])
                /\ invokedAt[i] = invokedAt[1]
                /\ Attempts(i) >= 1 /\ issued[i][1].url = BuildUrl(DatedRequest(Catalog[i]))
                /\ results[i].set => pc[i] = "done" /\ results[i] = EntryOf(i)
    /\ (handler = "latest" /\ hpc = "done")
          => /\ \A i \in 1..Len(Catalog) : pc[i] = "done"
             /\ Len(reply.entries) = Len(Catalog)
             /\ \A i \in 1..Len(Catalog) : reply.entries[i] = EntryOf(i)

\* C14: get_latest_news calls fetchNews once per catalog category, all of
\* them before any has answered; it replies only when every one of them has
\* returned, with one entry per category in catalog order, each built from
\* the outcome of that category's own call; an entry, once made, is not
\* changed by what happens to the other calls.
C14_FanOut ==
    []C14_Inv /\ [][\A i \in 1..Len(Catalog) : results[i].set => results'[i] = results[i]]_vars

\* the third category answered first and the first failed: the digest has
\* the error of the first and the news of the third
C14_Witness ==
    /\ handler = "latest" /\ hpc = "done"
    /\ IsFailure(outcome[1]) /\ reply.entries[1].hasError
    /\ reply.entries[2].news = << >> /\ ~reply.entries[2].hasError
    /\ reply.entries[3].news = <<11, 12>>
    /\ Attempts(1) = 3 /\ Attempts(3) = 1

----------------------------------------------------------------------------
\* the articles of call i when it returned a Success, none otherwise
SuccessItems(i) == IF pc[i] = "done" /\ WellShaped(outcome[i]) /\ ~IsFailure(outcome[i])
                   THEN outcome[i].items ELSE << >>

RECURSIVE Gathered(_)
\* what the loop of list has gathered from the first n categories
Gathered(n) == IF n = 0 THEN << >> ELSE Gathered(n - 1) \o Slice5(SuccessItems(n))

Holds(l, id) == \E j \in 1..Len(l) : l[j] = id

\* C15: every handler treats the two variants of an outcome apart.  list
\* gathers articles from the Success outcomes only, a Failure adding none;
\* read returns an article only when a Success outcome holds it and reports
\* it not found otherwise; get_category_news answers a Failure with its
\* error text and no article; get_latest_news makes an error entry of a
\* Failure and a news entry of a Success.
C15_HandlersCheckOutcome ==
    /\ (handler = "list" /\ hpc = "awaiting") => allNews = Gathered(hidx - 1)
    /\ (handler = "list" /\ hpc = "done")
          => /\ \A i \in 1..Len(Catalog) : Settled(i)
             /\ reply.kind = "resources" /\ reply.items = Gathered(Len(Catalog))
    /\ (handler = "read" /\ hpc = "done")
          => /\ reply.kind = "contents" /\ reply.items = <<harg.id>>
             /\ Holds(SuccessItems(hidx), harg.id)
             /\ \A i \in 1..(hidx - 1) : Settled(i) /\ ~Holds(SuccessItems(i), harg.id)
    /\ (handler = "read" /\ hpc = "thrown")
          => /\ reply.kind = "error" /\ reply.items = << >>
             /\ \A i \in 1..Len(Catalog) : Settled(i) /\ ~Holds(SuccessItems(i), harg.id)
    /\ (handler = "category" /\ hpc = "done")
          => /\ pc[1] = "done"
             /\ IF IsFailure(outcome[1])
                THEN /\ reply.head = "query failed" /\ reply.detail = outcome[1].error
                     /\ reply.items = << >>
                ELSE /\ WellShaped(outcome[1])
                     /\ reply.head = "query result" /\ reply.items = outcome[1].items
    /\ handler = "latest"
          => \A i \in 1..Len(Catalog) :
                results[i].set
                   => /\ pc[i] = "done"
                      /\ IF IsFailure(outcome[i])
                         THEN /\ results[i].hasError /\ results[i].error = outcome[i].error
                              /\ results[i].news = << >>
                         ELSE /\ WellShaped(outcome[i])
                              /\ ~results[i].hasError /\ results[i].news = outcome[i].items

\* list has ended: the first category failed after three attempts and added
\* nothing, the articles listed are those of a later category
C15_Witness ==
    /\ handler = "list" /\ hpc = "done"
    /\ IsFailure(outcome[1]) /\ Attempts(1) = 3
    /\ reply.items = <<11, 12>>

----------------------------------------------------------------------------
\* the timeout timers of call c that are still in the timer queue
PendingTimeouts(c) == {t \in timers : t.call = c /\ t.kind = "timeout"}

\* C21: a timeout timer is pending only while the transport call of its
\* attempt is awaited: when the attempt has ended, by a response or by a
\* thrown error, its timer is gone, so a call that is waiting to retry or
\* has returned has no timeout timer pending.
C21_TimeoutTimersCleared ==
    \A c \in Calls :
        /\ \A t \in PendingTimeouts(c) : t.att = attempt[c] /\ pc[c] = "fetching"
        /\ pc[c] \in {"backoff", "done", "thrown"} => PendingTimeouts(c) = {}

----------------------------------------------------------------------------
C22_Inv ==
    \A c \in Calls :
        /\ \A i \in 1..Attempts(c) :
              /\ issued[c][i].url = BuildUrl(req[c])
              /\ issued[c][i].url = issued[c][1].url
              /\ issued[c][i].headers = issued[c][1].headers
        /\ (pc[c] = "done" /\ IsFailure(outcome[c]) /\ Attempts(c) >= 1)
              => <<API_BASE_URL>> \o outcome[c].path = issued[c][Attempts(c)].url

\* C22: every attempt of a call sends the same url, built from the same
\* category and date, with the same headers; the arguments do not change
\* while the call runs; and the path of a Failure returned after at least one
\* attempt is what follows the base url in that url.
C22_SameRequestEveryAttempt ==
    []C22_Inv /\ [][\A c \in Calls : pc[c] # "idle" => req'[c] = req[c]]_vars

\* three attempts for category 1 and a date have failed
C22_Witness ==
    /\ pc[1] = "done" /\ IsFailure(outcome[1]) /\ Attempts(1) = 3
    /\ TruthyCategory(req[1]) /\ TruthyDate(req[1])
    /\ outcome[1].path = <<"?">> \o Str_category \o <<"=", "1", "&">> \o Str_date \o <<"=">> \o Date1

----------------------------------------------------------------------------
\* the fetch of catalog position i has returned articles that hold the id
HasArticle(i) == pc[i] = "done" /\ Holds(SuccessItems(i), harg.id)

C23_Inv ==
    handler = "read"
       => /\ \A i \in 1..Len(Catalog) :
                /\ i < hidx => Settled(i) /\ ~HasArticle(i)
                /\ i <= hidx => req[i] = CategoryRequest(Catalog[i]) /\ pc[i] # "idle"
                /\ i > hidx => pc[i] = "idle" /\ Attempts(i) = 0
          /\ hpc = "done" => HasArticle(hidx) /\ targetNews = harg.id
          /\ hpc = "thrown" => hidx = Len(Catalog) /\ Settled(hidx) /\ ~HasArticle(hidx)

C23_Step ==
    (handler = "read" /\ hpc = "awaiting" /\ Settled(hidx))
       => IF HasArticle(hidx) THEN hpc' = "done" /\ hidx' = hidx
          ELSE IF hidx < Len(Catalog)
          THEN hpc' = "awaiting" /\ hidx' = hidx + 1 /\ pc'[hidx + 1] = "fetching"
          ELSE hpc' = "thrown"

\* C23: the read handler fetches the categories in catalog order, the next
\* only when the one before has returned without the article; it ends at the
\* first category whose Success holds the id and fetches none after it; a
\* category that failed is passed over and the next one fetched; it throws
\* not-found exactly when all categories were fetched and none held the id.
C23_ReadSearchesInOrder == []C23_Inv /\ [][C23_Step]_vars

\* the first category failed, the second held article 12: the third was
\* never fetched
C23_Witness ==
    /\ handler = "read" /\ hpc = "done" /\ hidx = 2 /\ harg.id = 12
    /\ IsFailure(outcome[1]) /\ pc[3] = "idle" /\ reply.items = <<12>>

====
